---- MODULE Spec2Model ----
(***************************************************************************)
(* The embedder service of src/embedder/main.py: module-level start-up     *)
(* (two SentenceTransformer models, each loaded and quantized once) and    *)
(* the five FastAPI routes.  Every handler is an `async def`; the only     *)
(* suspension point inside a handler is `await file.read()` in             *)
(* embed_image, so every other handler is one atomic step of the event     *)
(* loop and embed_image is two.                                            *)
(***************************************************************************)
EXTENDS Naturals, Sequences, FiniteSets

\* ---------------------------------------------------------------- bounds
\* Number of requests that can be in flight (or answered, not yet delivered).
MaxReq == 2
\* Longest `texts` / `paths` list a request carries.
MaxLen == 2

Reqs == 1..MaxReq
Texts == {"a", "b"}
Paths == {"p1", "p2"}
\* File contents: two decodable images and one that PIL cannot identify.
Bytes == {"jpegA", "pngB", "junk"}
Missing == "missing"
\* What a path can hold: p1 nothing, an image or bytes that are no image,
\* p2 nothing or another image.
OnDisk(p) == IF p = "p1" THEN {Missing, "jpegA", "junk"} ELSE {Missing, "pngB"}

Lists(S) == UNION {[1..n -> S] : n \in 0..MaxLen}

VARIABLES
  startup,       \* position of the module-level code (lines 19-23)
  alive,         \* the server process is running
  clip_model,    \* [loads, quants] of clip_model
  text_model,    \* [loads, quants] of text_model
  fs,            \* the file system: path -> contents or Missing
  pc,            \* per request slot: "idle", "reading" (at the await), "done"
  req,           \* per slot: the request being handled
  resp,          \* per slot: the response produced
  calls,         \* per slot: encode calls made on each model for this request
  overlapped,    \* per slot: another request ran while this one was suspended
  failed         \* some request has ended in a failure response

vars == <<startup, alive, clip_model, text_model, fs, pc, req, resp, calls,
          overlapped, failed>>

\* ------------------------------------------------------------- requests
Request(route, body, text, texts, paths, file) ==
  [route |-> route, body |-> body, text |-> text, texts |-> texts,
   paths |-> paths, file |-> file]

NoReq == Request("", "none", "", <<>>, <<>>, "")

\* A JSON body is well-formed with the field ("ok"), not JSON at all
\* ("malformed"), or JSON without the required field ("missing_field").
BodyKinds == {"ok", "malformed", "missing_field"}

HealthRequests == {Request("/health", "none", "", <<>>, <<>>, "")}

TextRequests ==
  {Request("/embed/text", "ok", t, <<>>, <<>>, "") : t \in Texts}
  \cup {Request("/embed/text", b, "", <<>>, <<>>, "") : b \in BodyKinds \ {"ok"}}

TextsRequests ==
  {Request("/embed/texts", "ok", "", T, <<>>, "") : T \in Lists(Texts)}
  \cup {Request("/embed/texts", b, "", <<>>, <<>>, "") : b \in BodyKinds \ {"ok"}}

ImageRequests ==
  {Request("/embed/image", "ok", "", <<>>, <<>>, c) : c \in Bytes}
  \cup {Request("/embed/image", "missing_field", "", <<>>, <<>>, "")}

ImagePathsRequests ==
  {Request("/embed/image-paths", "ok", "", <<>>, P, "") : P \in Lists(Paths)}
  \cup {Request("/embed/image-paths", b, "", <<>>, <<>>, "") : b \in BodyKinds \ {"ok"}}

\* ------------------------------------------------------------ responses
Response(status, key, value, embedding, embeddings) ==
  [status |-> status, key |-> key, value |-> value,
   embedding |-> embedding, embeddings |-> embeddings]

NoResp == Response("", "", "", <<>>, <<>>)
HealthOk == Response("success", "status", "ok", <<>>, <<>>)
EmbeddingResponse(e) == Response("success", "embedding", "", e, <<>>)
EmbeddingsResponse(es) == Response("success", "embeddings", "", <<>>, es)
ValidationFailure == Response("validation_failure", "detail", "", <<>>, <<>>)
ServerError == Response("server_error", "", "", <<>>, <<>>)

NoCalls == [text |-> 0, clip |-> 0]
Outcome(r, nText, nClip) ==
  [resp |-> r, calls |-> [text |-> nText, clip |-> nClip]]

\* ------------------------------------------------------- library calls
\* pydantic / FastAPI validation of the declared body (or File(...)).
\* Faulty variant: only the JSON syntax is checked, not the fields.
ValidatesJsonOnly(rq) == rq.body # "malformed"
Validates(rq) == rq.body \in {"ok", "none"}

\* text_model.encode(str).tolist(): one vector.
text_model_encode(t) == <<"bge-m3", t>>
\* text_model.encode(list).tolist(): one vector per text, in input order.
text_model_encode_batch(T) == [i \in 1..Len(T) |-> text_model_encode(T[i])]

\* PIL: Image.open(...).convert("RGB") succeeds on an identifiable image.
Decodable(b) == b \in {"jpegA", "pngB"}
Image_open(b) == IF b = "jpegA" THEN "rgbA" ELSE "rgbB"

\* clip_model.encode(image).tolist() and its batch form.
clip_model_encode(img) == <<"clip-ViT-B-32", img>>
clip_model_encode_batch(imgs) == [i \in 1..Len(imgs) |-> clip_model_encode(imgs[i])]

\* Path(p).exists()
path_exists(p) == fs[p] # Missing


\* ---------------------------------------------------- process lifetime
\* Requests are served once the module-level code has run to its end.
\* Faulty variant: requests are accepted while the models are still loading.
ServingLazy == alive
Serving == alive /\ startup = "serving"

\* An exception raised by a handler is turned into an error response by the
\* application object; the process keeps running whatever the status.
\* Faulty variant: an uncaught exception ends the process.
ProcessAfterUncaught(status) == status # "server_error"
ProcessAfter(status) == TRUE

\* GET /health
\* Faulty variant: health reports an error once a request has failed.
health_handler_guarded == Outcome(IF failed THEN ServerError ELSE HealthOk, 0, 0)
health_handler == Outcome(HealthOk, 0, 0)

\* POST /embed/text
embed_text_handler(rq) ==
  Outcome(EmbeddingResponse(text_model_encode(rq.text)), 1, 0)

\* POST /embed/texts
\* Faulty variant: the embeddings come back in reverse order.
embed_texts_reversed(rq) ==
  Outcome(EmbeddingsResponse(
    [i \in 1..Len(rq.texts) |->
       text_model_encode(rq.texts[Len(rq.texts) + 1 - i])]), 1, 0)
\* Faulty variant: the empty list is refused.
embed_texts_nonempty(rq) ==
  IF rq.texts = <<>> THEN Outcome(ServerError, 0, 0)
  ELSE Outcome(EmbeddingsResponse(text_model_encode_batch(rq.texts)), 1, 0)
embed_texts_handler(rq) ==
  Outcome(EmbeddingsResponse(text_model_encode_batch(rq.texts)), 1, 0)

\* POST /embed/image, after the await: `contents` holds the uploaded bytes.
\* Image.open raises on bytes that are no image, before encode is reached.
embed_image_handler(contents) ==
  IF ~Decodable(contents) THEN Outcome(ServerError, 0, 0)
  ELSE Outcome(EmbeddingResponse(clip_model_encode(Image_open(contents))), 0, 1)

\* The loop of embed_image_paths (lines 65-69): ok is FALSE when Image.open
\* raised, and the loop stopped there.
\* Faulty variant: images are prepended, reversing the order.
RECURSIVE LoadLoopPrepend(_, _, _)
LoadLoopPrepend(paths, i, images) ==
  IF i > Len(paths) THEN [ok |-> TRUE, images |-> images]
  ELSE IF path_exists(paths[i])
       THEN IF Decodable(fs[paths[i]])
            THEN LoadLoopPrepend(paths, i + 1, <<Image_open(fs[paths[i]])>> \o images)
            ELSE [ok |-> FALSE, images |-> images]
       ELSE LoadLoopPrepend(paths, i + 1, images)
\* Faulty variant: undecodable files are skipped like missing ones.
RECURSIVE LoadLoopSkipCorrupt(_, _, _)
LoadLoopSkipCorrupt(paths, i, images) ==
  IF i > Len(paths) THEN [ok |-> TRUE, images |-> images]
  ELSE IF path_exists(paths[i]) /\ Decodable(fs[paths[i]])
       THEN LoadLoopSkipCorrupt(paths, i + 1, Append(images, Image_open(fs[paths[i]])))
       ELSE LoadLoopSkipCorrupt(paths, i + 1, images)
RECURSIVE LoadLoop(_, _, _)
LoadLoop(paths, i, images) ==
  IF i > Len(paths) THEN [ok |-> TRUE, images |-> images]
  ELSE IF path_exists(paths[i])
       THEN IF Decodable(fs[paths[i]])
            THEN LoadLoop(paths, i + 1, Append(images, Image_open(fs[paths[i]])))
            ELSE [ok |-> FALSE, images |-> images]
       ELSE LoadLoop(paths, i + 1, images)

\* POST /embed/image-paths
\* Faulty variant: no `if not images` guard before encode.
embed_image_paths_unguarded(rq) ==
  LET loaded == LoadLoop(rq.paths, 1, <<>>) IN
  IF ~loaded.ok THEN Outcome(ServerError, 0, 0)
  ELSE Outcome(EmbeddingsResponse(clip_model_encode_batch(loaded.images)), 0, 1)
embed_image_paths_handler(rq) ==
  LET loaded == LoadLoop(rq.paths, 1, <<>>) IN
  IF ~loaded.ok THEN Outcome(ServerError, 0, 0)
  ELSE IF loaded.images = <<>> THEN Outcome(EmbeddingsResponse(<<>>), 0, 0)
  ELSE Outcome(EmbeddingsResponse(clip_model_encode_batch(loaded.images)), 0, 1)

\* The body is validated before the handler is called.
Dispatch(rq, out) ==
  IF Validates(rq) THEN out ELSE Outcome(ValidationFailure, 0, 0)

\* `await file.read()` hands the handler the bytes of its own upload.
\* Faulty variant: the bytes of whichever upload is pending are read.
file_read_any(r) == req[CHOOSE q \in Reqs : pc[q] = "reading"].file
file_read(r) == req[r].file

\* -------------------------------------------------------------- actions
Init ==
  /\ startup = "load_clip"
  /\ alive = TRUE
  /\ clip_model = [loads |-> 0, quants |-> 0]
  /\ text_model = [loads |-> 0, quants |-> 0]
  /\ fs \in {f \in [Paths -> Bytes \cup {Missing}] : \A p \in Paths : f[p] \in OnDisk(p)}
  /\ pc = [r \in Reqs |-> "idle"]
  /\ req = [r \in Reqs |-> NoReq]
  /\ resp = [r \in Reqs |-> NoResp]
  /\ calls = [r \in Reqs |-> NoCalls]
  /\ overlapped = [r \in Reqs |-> FALSE]
  /\ failed = FALSE

\* clip_model = SentenceTransformer("clip-ViT-B-32")
LoadClip ==
  /\ alive /\ startup = "load_clip"
  /\ clip_model' = [clip_model EXCEPT !.loads = @ + 1]
  /\ startup' = "quantize_clip"
  /\ UNCHANGED <<alive, text_model, fs, pc, req, resp, calls,
                 overlapped, failed>>

\* quantize_(clip_model[0], ...)
QuantizeClip ==
  /\ alive /\ startup = "quantize_clip"
  /\ clip_model' = [clip_model EXCEPT !.quants = @ + 1]
  /\ startup' = "load_text"
  /\ UNCHANGED <<alive, text_model, fs, pc, req, resp, calls,
                 overlapped, failed>>

\* text_model = SentenceTransformer("BAAI/bge-m3")
LoadText ==
  /\ alive /\ startup = "load_text"
  /\ text_model' = [text_model EXCEPT !.loads = @ + 1]
  /\ startup' = "quantize_text"
  /\ UNCHANGED <<alive, clip_model, fs, pc, req, resp, calls,
                 overlapped, failed>>

\* quantize_(text_model[0].auto_model, ...)
QuantizeText ==
  /\ alive /\ startup = "quantize_text"
  /\ text_model' = [text_model EXCEPT !.quants = @ + 1]
  /\ startup' = "serving"
  /\ UNCHANGED <<alive, clip_model, fs, pc, req, resp, calls,
                 overlapped, failed>>

\* A module-level statement raises: the import fails and the process exits
\* without ever serving.
StartupFails ==
  /\ alive /\ startup # "serving"
  /\ alive' = FALSE
  /\ startup' = "exited"
  /\ UNCHANGED <<clip_model, text_model, fs, pc, req, resp, calls,
                 overlapped, failed>>

\* Request rq in slot r ends with outcome out.
Finish(r, rq, out) ==
  /\ pc' = [pc EXCEPT ![r] = "done"]
  /\ req' = [req EXCEPT ![r] = rq]
  /\ resp' = [resp EXCEPT ![r] = out.resp]
  /\ calls' = [calls EXCEPT ![r] = out.calls]
  /\ overlapped' = [q \in Reqs |->
                      IF q # r /\ pc[q] = "reading" THEN TRUE ELSE overlapped[q]]
  /\ failed' = (failed \/ out.resp.status # "success")
  /\ alive' = ProcessAfter(out.resp.status)
  /\ UNCHANGED <<startup, clip_model, text_model, fs>>

health(r) ==
  /\ Serving /\ pc[r] = "idle"
  /\ \E rq \in HealthRequests : Finish(r, rq, Dispatch(rq, health_handler))

embed_text(r) ==
  /\ Serving /\ pc[r] = "idle"
  /\ \E rq \in TextRequests : Finish(r, rq, Dispatch(rq, embed_text_handler(rq)))

embed_texts(r) ==
  /\ Serving /\ pc[r] = "idle"
  /\ \E rq \in TextsRequests : Finish(r, rq, Dispatch(rq, embed_texts_handler(rq)))

\* The upload fails validation (no file part): the handler is never called.
embed_image_rejected(r) ==
  /\ Serving /\ pc[r] = "idle"
  /\ \E rq \in ImageRequests :
       /\ ~Validates(rq)
       /\ Finish(r, rq, Dispatch(rq, embed_image_handler(rq.file)))

\* embed_image up to `await file.read()`: the coroutine is suspended.
embed_image_await(r) ==
  /\ Serving /\ pc[r] = "idle"
  /\ \E rq \in ImageRequests :
       /\ Validates(rq)
       /\ req' = [req EXCEPT ![r] = rq]
  /\ pc' = [pc EXCEPT ![r] = "reading"]
  /\ UNCHANGED <<startup, alive, clip_model, text_model, fs, resp, calls,
                 overlapped, failed>>

\* embed_image from the resumption to the return (lines 57-60).
embed_image(r) ==
  /\ Serving /\ pc[r] = "reading"
  /\ Finish(r, req[r], embed_image_handler(file_read(r)))

embed_image_paths(r) ==
  /\ Serving /\ pc[r] = "idle"
  /\ \E rq \in ImagePathsRequests :
       Finish(r, rq, Dispatch(rq, embed_image_paths_handler(rq)))

\* The response has been sent: nothing of the request remains.
Deliver(r) ==
  /\ pc[r] = "done"
  /\ pc' = [pc EXCEPT ![r] = "idle"]
  /\ req' = [req EXCEPT ![r] = NoReq]
  /\ resp' = [resp EXCEPT ![r] = NoResp]
  /\ calls' = [calls EXCEPT ![r] = NoCalls]
  /\ overlapped' = [overlapped EXCEPT ![r] = FALSE]
  /\ UNCHANGED <<startup, alive, clip_model, text_model, fs, failed>>

Next ==
  \/ LoadClip
  \/ QuantizeClip
  \/ LoadText
  \/ QuantizeText
  \/ StartupFails
  \/ \E r \in Reqs : health(r)
  \/ \E r \in Reqs : embed_text(r)
  \/ \E r \in Reqs : embed_texts(r)
  \/ \E r \in Reqs : embed_image_rejected(r)
  \/ \E r \in Reqs : embed_image_await(r)
  \/ \E r \in Reqs : embed_image(r)
  \/ \E r \in Reqs : embed_image_paths(r)
  \/ \E r \in Reqs : Deliver(r)

Spec == Init /\ [][Next]_vars


\* ------------------------------------------------------------ properties
Done(r) == pc[r] = "done"
Handled(r, route) == Done(r) /\ req[r].route = route /\ req[r].body = "ok"
Existing(paths) == SelectSeq(paths, path_exists)
AllDecodable(paths) ==
  \A i \in 1..Len(paths) : path_exists(paths[i]) => Decodable(fs[paths[i]])
\* Every slot holds an answered request although a failure happened: the
\* failed request was delivered, so the request now in its slot ran after it.
AllAnsweredAfterFailure == failed /\ \A r \in Reqs : Done(r)

\* C1: an /embed/image-paths request none of whose paths exists (the empty
\* list included) gets the success response {"embeddings": []} and makes no
\* encode call on either model.
C1_NoExistingPathYieldsEmpty ==
  \A r \in Reqs :
    (Handled(r, "/embed/image-paths") /\ Existing(req[r].paths) = <<>>)
      => resp[r] = EmbeddingsResponse(<<>>) /\ calls[r] = NoCalls

C1_Witness ==
  \E r, q \in Reqs :
    /\ Handled(r, "/embed/image-paths") /\ Len(req[r].paths) = MaxLen
    /\ Existing(req[r].paths) = <<>>
    /\ Handled(q, "/embed/image-paths") /\ req[q].paths = <<>>

\* C2: a missing path is dropped and never fails the request: when every
\* existing path is a decodable image, the response holds exactly the
\* encodings of the existing paths, one per occurrence, in input order.
C2_MissingPathsDropped ==
  \A r \in Reqs :
    (Handled(r, "/embed/image-paths") /\ AllDecodable(req[r].paths))
      => LET ex == Existing(req[r].paths) IN
         /\ resp[r].status = "success"
         /\ resp[r].key = "embeddings"
         /\ Len(resp[r].embeddings) = Len(ex)
         /\ \A i \in 1..Len(ex) :
              resp[r].embeddings[i] = clip_model_encode(Image_open(fs[ex[i]]))

C2_Witness ==
  \E r, q \in Reqs :
    /\ ~path_exists("p1") /\ path_exists("p2")
    /\ Handled(r, "/embed/image-paths") /\ req[r].paths = <<"p1", "p2">>
    /\ resp[r] = EmbeddingsResponse(<<clip_model_encode("rgbB")>>)
    /\ Handled(q, "/embed/image-paths") /\ req[q].paths = <<"p2", "p2">>
    /\ Len(resp[q].embeddings) = 2

C4_EmptyTexts ==
  \A r \in Reqs :
    (Handled(r, "/embed/texts") /\ req[r].texts = <<>>)
      => resp[r] = EmbeddingsResponse(<<>>)

C4_Witness ==
  \E r \in Reqs :
    Handled(r, "/embed/texts") /\ req[r].texts = <<>> /\ resp[r].status = "success"

\* C5: whenever the service runs, /health can be served and every answer it
\* gives is {"status": "ok"}, made without a model call, whatever failed
\* before.
C5_HealthAlwaysOk ==
  \A r \in Reqs :
    /\ (Done(r) /\ req[r].route = "/health")
         => resp[r] = HealthOk /\ calls[r] = NoCalls
    /\ (startup = "serving" /\ pc[r] = "idle")
         => ENABLED (health(r) /\ resp'[r] = HealthOk)

C5_Witness ==
  /\ AllAnsweredAfterFailure
  /\ \A r \in Reqs : req[r].route = "/health" /\ resp[r] = HealthOk

JsonRoutes == {"/embed/text", "/embed/texts", "/embed/image-paths"}

\* C6: a malformed body, or one without the required field, sent to
\* /embed/text, /embed/texts or /embed/image-paths is answered with a
\* validation failure, no encode call is made for it, and the process lives.
C6_InvalidBodyRejected ==
  \A r \in Reqs :
    (Done(r) /\ req[r].route \in JsonRoutes
       /\ req[r].body \in {"malformed", "missing_field"})
      => resp[r] = ValidationFailure /\ calls[r] = NoCalls /\ alive

C6_Witness ==
  \E r, q \in Reqs :
    /\ Done(r) /\ req[r].route = "/embed/text" /\ req[r].body = "missing_field"
    /\ Done(q) /\ req[q].route = "/embed/image-paths" /\ req[q].body = "malformed"

HasCorrupt(paths) ==
  \E i \in 1..Len(paths) : path_exists(paths[i]) /\ ~Decodable(fs[paths[i]])

\* C8: undecodable bytes, uploaded or at an existing path, end the request in
\* a server error: no embedding(s) response, not even a partial one, and no
\* call of the image model.
C8_UndecodableIsServerError ==
  \A r \in Reqs :
    (\/ Handled(r, "/embed/image") /\ ~Decodable(req[r].file)
     \/ Handled(r, "/embed/image-paths") /\ HasCorrupt(req[r].paths))
      => resp[r] = ServerError /\ calls[r].clip = 0

C8_Witness ==
  \E r, q \in Reqs :
    /\ Handled(r, "/embed/image-paths") /\ HasCorrupt(req[r].paths)
    /\ \E i \in 1..Len(req[r].paths) : Decodable(fs[req[r].paths[i]])
    /\ Handled(q, "/embed/image") /\ req[q].file = "junk"

ModelsReady ==
  /\ clip_model = [loads |-> 1, quants |-> 1]
  /\ text_model = [loads |-> 1, quants |-> 1]

C9_State ==
  /\ clip_model.loads <= 1 /\ clip_model.quants <= clip_model.loads
  /\ text_model.loads <= 1 /\ text_model.quants <= text_model.loads
  /\ \A r \in Reqs :
       /\ pc[r] # "idle" => ModelsReady
       /\ pc[r] = "idle" =>
            /\ req[r] = NoReq /\ resp[r] = NoResp /\ calls[r] = NoCalls
            /\ ~overlapped[r]

\* C9: each model is loaded once and quantized once before any request is
\* served, no step of the serving process changes either model, and an idle
\* slot keeps nothing of the request it served.
C9_ModelsImmutable ==
  /\ []C9_State
  /\ [][startup = "serving" => (clip_model' = clip_model /\ text_model' = text_model)]_vars

C9_Witness ==
  /\ AllAnsweredAfterFailure /\ ModelsReady
  /\ \E r, q \in Reqs :
       /\ calls[r].clip = 1 /\ resp[r].status = "success"
       /\ calls[q].text = 1 /\ resp[q].status = "success"

\* C10: whatever ran while a request was suspended or waiting, its response
\* is the one its own body and the file system determine: an upload is
\* answered from its own bytes, and a request that was overlapped by another
\* gets the response the same request gets when it runs undisturbed.
C10_RequestsIndependent ==
  /\ \A r \in Reqs :
       Handled(r, "/embed/image") =>
         /\ ~Decodable(req[r].file) => resp[r] = ServerError
         /\ Decodable(req[r].file) =>
              resp[r] = EmbeddingResponse(clip_model_encode(Image_open(req[r].file)))
  /\ \A r, q \in Reqs :
       (Done(r) /\ Done(q) /\ overlapped[r] /\ ~overlapped[q] /\ req[r] = req[q])
         => resp[r] = resp[q]

C10_Witness ==
  \E r, q \in Reqs :
    /\ Handled(r, "/embed/image") /\ req[r].file = "jpegA" /\ overlapped[r]
    /\ resp[r].status = "success"
    /\ Handled(q, "/embed/image") /\ req[q].file = "junk" /\ overlapped[q]

====
